---- MODULE Spec2Model ----
(***************************************************************************)
(* flask_openapi_validator: OpenAPIValidator.__init__ and                  *)
(* OpenAPIValidator.validate (src/flask_openapi_validator/__init__.py).    *)
(*                                                                         *)
(* Python strings that the code slices, prefix-tests or lower-cases (URLs, *)
(* path keys, method names) are sequences of one-character strings.  JSON  *)
(* objects are functions from keys to values; a JSON array is a sequence.  *)
(* A Python value that may be None is a record [some |-> FALSE] or         *)
(* [some |-> TRUE, val |-> v].                                             *)
(***************************************************************************)
EXTENDS Naturals, Sequences, FiniteSets

VARIABLES
    validator,  \* the OpenAPIValidator instance: NoInstance or [schema |-> doc]
    ctor,       \* the last constructor call: which arguments were given (truthy)
                \* and the exception it raised, if any
    request,    \* the request handed to the last validate call
    result,     \* how the last validate call ended (a return or a raise)
    steps,      \* what the last validate call did, in order
    looked_up   \* the key the last validate call looked up in schema["paths"]

vars == <<validator, ctor, request, result, steps, looked_up>>

-----------------------------------------------------------------------------
(* Bounds of the model *)

MaxHostLen == 1
MaxPathLen == 1
MaxServers == 2

-----------------------------------------------------------------------------
(* Python values *)

None == [some |-> FALSE]
Some(v) == [some |-> TRUE, val |-> v]

\* bool(x) for a str, a dict or a list that may be None
Truthy(x) == x.some /\ x.val # <<>>

\* str.startswith
startswith(s, prefix) ==
    /\ Len(prefix) <= Len(s)
    /\ SubSeq(s, 1, Len(prefix)) = prefix

\* s[n:]
SliceFrom(s, n) == SubSeq(s, n + 1, Len(s))

LowerChar(c) ==
    CASE c = "G" -> "g"
      [] c = "E" -> "e"
      [] c = "T" -> "t"
      [] c = "P" -> "p"
      [] c = "U" -> "u"
      [] OTHER -> c

\* str.lower
lower(s) == [i \in 1..Len(s) |-> LowerChar(s[i])]

\* dict.get(key, None)
DictGet(d, key) == IF key \in DOMAIN d THEN Some(d[key]) ELSE None

-----------------------------------------------------------------------------
(* Inputs: OpenAPI documents and requests *)

RECURSIVE StringsUpTo(_, _)
StringsUpTo(alphabet, n) ==
    IF n = 0 THEN {<<>>}
    ELSE LET shorter == StringsUpTo(alphabet, n - 1)
         IN shorter \cup {Append(s, c) : s \in shorter, c \in alphabet}

\* request.root_url: up to MaxHostLen characters, then up to MaxPathLen
\* characters of path: "", "h", "/", "h/", ...
RootUrls ==
    {host \o path : host \in StringsUpTo({"h"}, MaxHostLen),
                    path \in StringsUpTo({"/"}, MaxPathLen)}

\* "", "h", "h/": the empty string and a URL that is a prefix of another
ServerUrls == {<<>>, <<"h">>, <<"h", "/">>}

ServerLists ==
    UNION {[1..n -> {[url |-> u] : u \in ServerUrls}] : n \in 0..MaxServers}

GET == <<"G", "E", "T">>
Get == <<"G", "e", "t">>
get == <<"g", "e", "t">>
put == <<"p", "u", "t">>
PathsKey == <<"p", "a", "t", "h", "s">>
Methods == {GET, Get, get}

\* a requestBody fragment: p is required, p and q are strings
BodyPQ == [required |-> {"p"},
           properties |-> [n \in {"p", "q"} |-> [type |-> "string"]]]

EmptyDict == <<>>
OpWithBody(rb) == [k \in {"requestBody"} |-> rb]
OpNoBody == [k \in {"summary"} |-> "no body"]

\* Path items: the OpenAPI shape (method keys directly under the path), and
\* shapes that carry a "paths" key inside the path item.
PathItems ==
    { [k \in {get} |-> OpWithBody(BodyPQ)],
      [k \in {put} |-> OpWithBody(BodyPQ)],
      [k \in {get, PathsKey} |->
          IF k = get THEN OpWithBody(BodyPQ) ELSE EmptyDict],
      [k \in {PathsKey} |-> [m \in {get} |-> OpWithBody(BodyPQ)]],
      [k \in {PathsKey} |-> [m \in {get} |-> EmptyDict]],
      [k \in {PathsKey} |-> [m \in {get} |-> OpNoBody]],
      [k \in {PathsKey} |-> [m \in {put} |-> OpWithBody(BodyPQ)]] }

PathKeys == {<<"/">>}

PathMaps == UNION {[ks -> PathItems] : ks \in SUBSET PathKeys}

Docs == {[servers |-> s, paths |-> p] : s \in ServerLists, p \in PathMaps}

\* parsed JSON bodies: property name -> JSON type of its value
Bodies ==
    { [n \in {"q"} |-> "integer"],
      [n \in {"p", "q"} |-> "string"] }

Requests == [root_url : RootUrls, method : Methods, body : Bodies]

\* Texts handed to json.load / json.loads: "" , text that is not JSON, and the
\* JSON encoding of a document
EmptyText == [kind |-> "empty"]
Garbage == [kind |-> "garbage"]
Encode(d) == [kind |-> "json", doc |-> d]
FileName == [kind |-> "path", name |-> "openapi.json"]

\* bool(s) for a str argument that may be None
StrTruthy(a) == a.some /\ a.val.kind # "empty"

PathArgs == {None, Some(EmptyText), Some(FileName)}
JsonArgs == {None, Some(EmptyText), Some(Garbage)} \cup {Some(Encode(d)) : d \in Docs}
\* what open(path) finds: no such file, or a file with some text in it
FileContents == {None, Some(EmptyText), Some(Garbage)} \cup {Some(Encode(d)) : d \in Docs}

-----------------------------------------------------------------------------
(* Results *)

Return(cls, status, data) ==
    [kind |-> "return", cls |-> cls, status |-> status, data |-> data]
Raise(exc) == [kind |-> "raise", exc |-> exc]

\* class _Status
SUCCESS == "success"
ERROR == "error"

-----------------------------------------------------------------------------
(* OpenAPIValidator *)

\* json.load / json.loads
json_loads(text) ==
    IF text.kind = "json" THEN [exc |-> "none", doc |-> text.doc]
    ELSE [exc |-> "JSONDecodeError"]

\* __init__ without the final raise: no source given, and an instance with an
\* empty schema comes back
init_deferred(path, json_str, content) ==
    IF StrTruthy(path) /\ content.some /\ content.val.kind = "json"
    THEN [exc |-> "none", schema |-> content.val.doc]
    ELSE IF StrTruthy(json_str) /\ json_str.val.kind = "json"
    THEN [exc |-> "none", schema |-> json_str.val.doc]
    ELSE [exc |-> "none", schema |-> [servers |-> <<>>, paths |-> <<>>]]

\* __init__(self, *, path=None, json_str=None); content is what open(path)
\* finds.  The outcome is the exception raised, or the schema stored.
__init__(path, json_str, content) ==
    IF StrTruthy(path) THEN
        IF ~content.some THEN [exc |-> "FileNotFoundError"]
        ELSE LET loaded == json_loads(content.val)
             IN IF loaded.exc # "none" THEN [exc |-> loaded.exc]
                ELSE [exc |-> "none", schema |-> loaded.doc]
    ELSE IF StrTruthy(json_str) THEN
        LET loaded == json_loads(json_str.val)
        IN IF loaded.exc # "none" THEN [exc |-> loaded.exc]
           ELSE [exc |-> "none", schema |-> loaded.doc]
    ELSE [exc |-> "ValueError"]

\* _get_path_schema(self, path, method): defined by the class, called nowhere
_get_path_schema(schema, path, method) ==
    IF path \notin DOMAIN schema.paths THEN Raise("KeyError")
    ELSE LET path_spec == schema.paths[path]
         IN IF lower(method) \notin DOMAIN path_spec THEN Raise("KeyError")
            ELSE [kind |-> "return", val |-> path_spec[lower(method)]]

RECURSIVE FirstMatch(_, _, _)
FirstMatch(url, server_schemas, i) ==
    IF i > Len(server_schemas) THEN None
    ELSE IF startswith(url, server_schemas[i].url) THEN Some(server_schemas[i].url)
    ELSE FirstMatch(url, server_schemas, i + 1)

\* _get_server_url without the startswith test: the first entry, matching or not
get_server_url_untested(url, server_schemas) ==
    IF Len(server_schemas) = 0 THEN None ELSE Some(server_schemas[1].url)

\* _get_server_url(self, url, server_schemas)
_get_server_url(url, server_schemas) == FirstMatch(url, server_schemas, 1)

\* _get_request_schema(self, method, request_schema): request_schema["paths"]
\* is a KeyError when the path item holds no "paths" key
_get_request_schema(method, request_schema) ==
    IF PathsKey \notin DOMAIN request_schema THEN Raise("KeyError")
    ELSE [kind |-> "return", val |-> DictGet(request_schema[PathsKey], lower(method))]

\* _validate_request_body(self, request_body, request_schema)
_validate_request_body(request_body, request_schema) == Raise("NotImplementedError")

\* validate, lines 108-118: the server prefix url matched and is stripped.
\* In line 114 Python evaluates value.get_json() before schema["requestBody"].
ValidateUnderPrefix(schema, value, url) ==
    LET path == SliceFrom(value.root_url, Len(url))
    IN IF path \notin DOMAIN schema.paths
       THEN [result |-> Raise("KeyError"), steps |-> <<"paths[path]">>, path |-> path]
       ELSE
       LET found == _get_request_schema(value.method, schema.paths[path])
           s2 == <<"paths[path]", "_get_request_schema">>
       IN IF found.kind = "raise" THEN [result |-> found, steps |-> s2, path |-> path]
          ELSE IF ~Truthy(found.val)
          THEN [result |-> Return("InvalidRequestMethod", ERROR, "Invalid request method"),
                steps |-> s2, path |-> path]
          ELSE IF "requestBody" \notin DOMAIN found.val.val
          THEN [result |-> Raise("KeyError"),
                steps |-> s2 \o <<"get_json", "schema[requestBody]">>, path |-> path]
          ELSE
          LET errors == _validate_request_body(value.body, found.val.val["requestBody"])
              s3 == s2 \o <<"get_json", "schema[requestBody]", "_validate_request_body">>
          IN IF errors.kind = "raise" THEN [result |-> errors, steps |-> s3, path |-> path]
             ELSE IF errors.val # <<>>
             THEN [result |-> Return("InvalidRequestBody", ERROR, errors.val),
                   steps |-> s3, path |-> path]
             ELSE [result |-> Return("ValidationResult", SUCCESS, "None"),
                   steps |-> s3, path |-> path]

\* validate without the return of line 106: the lookup runs on the whole
\* base URL when no server prefix matched
validate_no_short_circuit(schema, value) ==
    LET url == _get_server_url(value.root_url, schema.servers)
        rest == ValidateUnderPrefix(schema, value, IF url.some THEN url.val ELSE <<>>)
    IN [result |-> rest.result, steps |-> <<"_get_server_url">> \o rest.steps,
        path |-> Some(rest.path)]

\* validate(self, value): how the call ends and what it did, in order
validate(schema, value) ==
    LET url == _get_server_url(value.root_url, schema.servers)
    IN IF ~Truthy(url)
       THEN [result |-> Return("InvalidRequestPath", ERROR, "Incorrect request path prefix"),
             steps |-> <<"_get_server_url">>, path |-> None]
       ELSE LET rest == ValidateUnderPrefix(schema, value, url.val)
            IN [result |-> rest.result, steps |-> <<"_get_server_url">> \o rest.steps,
                path |-> Some(rest.path)]

-----------------------------------------------------------------------------
(* The state machine *)

NoInstance == [exists |-> FALSE]
NoCall == [called |-> FALSE]
NoRequest == [given |-> FALSE]
NoResult == [kind |-> "none"]

Init ==
    /\ validator = NoInstance
    /\ ctor = NoCall
    /\ request = NoRequest
    /\ result = NoResult
    /\ steps = <<>>
    /\ looked_up = None

\* OpenAPIValidator(path=..., json_str=...): an instance exists only when
\* __init__ returns
Construct ==
    /\ ~validator.exists
    /\ \E path \in PathArgs, json_str \in JsonArgs, content \in FileContents :
         /\ StrTruthy(path) => json_str \in {None, Some(EmptyText), Some(Garbage)}
         /\ ~StrTruthy(path) => content = None
         /\ LET out == __init__(path, json_str, content)
            IN /\ ctor' = [called |-> TRUE, path_given |-> StrTruthy(path),
                           json_given |-> StrTruthy(json_str), exc |-> out.exc]
               /\ validator' = IF out.exc = "none"
                                THEN [exists |-> TRUE, schema |-> out.schema]
                                ELSE NoInstance
    /\ UNCHANGED <<request, result, steps, looked_up>>

\* validate that consumes the servers list while it scans it
ValidateMutating ==
    /\ validator.exists
    /\ \E value \in Requests :
         LET out == validate(validator.schema, value)
         IN /\ request' = [given |-> TRUE, value |-> value]
            /\ result' = out.result
            /\ steps' = out.steps
            /\ looked_up' = out.path
    /\ validator' = [validator EXCEPT !.schema.servers =
                        IF @ = <<>> THEN @ ELSE Tail(@)]
    /\ UNCHANGED ctor

\* validator.validate(value)
Validate ==
    /\ validator.exists
    /\ \E value \in Requests :
         LET out == validate(validator.schema, value)
         IN /\ request' = [given |-> TRUE, value |-> value]
            /\ result' = out.result
            /\ steps' = out.steps
            /\ looked_up' = out.path
    /\ UNCHANGED <<validator, ctor>>

Next == Construct \/ Validate

Spec == Init /\ [][Next]_vars

-----------------------------------------------------------------------------
(* What the claims speak of *)

\* the last validate call's request and the schema it ran against
Called == validator.exists /\ request.given
Value == request.value
Schema == validator.schema

\* some entry of servers has a URL the base URL starts with
AnyServerPrefix(schema, url) ==
    \E i \in 1..Len(schema.servers) : startswith(url, schema.servers[i].url)

\* the first entry of servers, in document order, whose URL is a prefix
FirstPrefixIndex(schema, url) ==
    CHOOSE i \in 1..Len(schema.servers) :
        /\ startswith(url, schema.servers[i].url)
        /\ \A j \in 1..(i - 1) : ~startswith(url, schema.servers[j].url)

FirstPrefix(schema, url) == schema.servers[FirstPrefixIndex(schema, url)].url

\* the base URL with the first matching server URL removed from its front
LogicalPath(schema, url) == SliceFrom(url, Len(FirstPrefix(schema, url)))

\* a server URL matched and it is not the empty string
NonEmptyPrefix(schema, url) ==
    AnyServerPrefix(schema, url) /\ FirstPrefix(schema, url) # <<>>

IsReturn(cls) == result.kind = "return" /\ result.cls = cls

\* the expected outcome of body validation: required properties the body
\* lacks, and properties it holds whose value is not of the declared type
ExpectedMissing(body, request_schema) ==
    {n \in request_schema.required : n \notin DOMAIN body}
ExpectedInvalid(body, request_schema) ==
    {n \in DOMAIN body \cap DOMAIN request_schema.properties :
        body[n] # request_schema.properties[n].type}

\* the last call got as far as line 114 with an operation that declares a
\* requestBody: server prefix, path and method resolved
ReachedBody ==
    /\ Called
    /\ Len(steps) = 6
    /\ steps[6] = "_validate_request_body"

\* the requestBody fragment the last call resolved (only under ReachedBody)
ResolvedBody ==
    Schema.paths[looked_up.val][PathsKey][lower(Value.method)]["requestBody"]

StepOrder ==
    <<"_get_server_url", "paths[path]", "_get_request_schema", "get_json",
      "schema[requestBody]", "_validate_request_body">>

Did(step) == \E i \in 1..Len(steps) : steps[i] = step

-----------------------------------------------------------------------------
(* The claims *)

\* C1: a request whose base URL starts with the URL of no entry of servers
\* gets an InvalidRequestPath result, status "error", data a message string;
\* the call returns, it does not raise.
C1_NoPrefixIsInvalidPath ==
    (Called /\ ~AnyServerPrefix(Schema, Value.root_url))
        => result = Return("InvalidRequestPath", ERROR, "Incorrect request path prefix")

C1_Witness ==
    /\ Called
    /\ Len(Schema.servers) = 2
    /\ ~AnyServerPrefix(Schema, Value.root_url)
    /\ IsReturn("InvalidRequestPath")

\* C2: when a (non-empty) server URL matches and the stripped path is no key
\* of paths, or the request's method is no key under that path entry, the
\* call returns an InvalidRequestMethod result with status "error".
C2_UnknownPathOrMethodIsInvalidMethod ==
    (Called /\ NonEmptyPrefix(Schema, Value.root_url)
       /\ LET path == LogicalPath(Schema, Value.root_url)
          IN \/ path \notin DOMAIN Schema.paths
             \/ lower(Value.method) \notin DOMAIN Schema.paths[path])
        => (IsReturn("InvalidRequestMethod") /\ result.status = ERROR)

\* C3: when server prefix, path and method resolve and the body has every
\* required property and only values of the declared types, the call returns
\* status "success" with data None.
C3_ValidBodyIsSuccess ==
    (ReachedBody
       /\ ExpectedMissing(Value.body, ResolvedBody) = {}
       /\ ExpectedInvalid(Value.body, ResolvedBody) = {})
        => result = Return("ValidationResult", SUCCESS, "None")

\* C4: when server prefix, path and method resolve and the body lacks a
\* required property or holds a value of the wrong type, the call returns an
\* InvalidRequestBody result, status "error", whose data lists the former
\* under missing and the latter under invalid.
C4_BadBodyIsInvalidBody ==
    (ReachedBody
       /\ \/ ExpectedMissing(Value.body, ResolvedBody) # {}
          \/ ExpectedInvalid(Value.body, ResolvedBody) # {})
        => /\ IsReturn("InvalidRequestBody")
           /\ result.status = ERROR
           /\ \A n \in ExpectedMissing(Value.body, ResolvedBody) :
                  \E i \in 1..Len(result.data.missing) : result.data.missing[i] = n
           /\ \A n \in ExpectedInvalid(Value.body, ResolvedBody) :
                  \E i \in 1..Len(result.data.invalid) : result.data.invalid[i] = n

\* C5: for an invalid-input request (no server prefix matches; the path is
\* not in paths; the method is not under the path; the body lacks a required
\* property or holds a malformed one) validate returns a result with status
\* "error" and never raises.
InvalidInput ==
    \/ ~AnyServerPrefix(Schema, Value.root_url)
    \/ /\ NonEmptyPrefix(Schema, Value.root_url)
       /\ LET path == LogicalPath(Schema, Value.root_url)
          IN \/ path \notin DOMAIN Schema.paths
             \/ lower(Value.method) \notin DOMAIN Schema.paths[path]
    \/ /\ ReachedBody
       /\ \/ ExpectedMissing(Value.body, ResolvedBody) # {}
          \/ ExpectedInvalid(Value.body, ResolvedBody) # {}

C5_InvalidInputNeverRaises ==
    (Called /\ InvalidInput) => (result.kind = "return" /\ result.status = ERROR)

\* C6: validate runs server-prefix resolution, then path+method resolution,
\* then body validation, and stops at the first step that fails: no lookup
\* in paths when no server prefix matched, and the body is neither read nor
\* validated when the prefix or the path+method did not resolve.
C6_StrictOrderShortCircuit ==
    Called =>
        /\ Len(steps) >= 1
        /\ Len(steps) <= Len(StepOrder)
        /\ steps = SubSeq(StepOrder, 1, Len(steps))
        /\ ~AnyServerPrefix(Schema, Value.root_url) => steps = <<"_get_server_url">>
        /\ (IsReturn("InvalidRequestPath") \/ IsReturn("InvalidRequestMethod"))
              => (~Did("get_json") /\ ~Did("_validate_request_body"))
        /\ IsReturn("InvalidRequestPath") => ~Did("paths[path]")
        /\ (looked_up.some /\ looked_up.val \notin DOMAIN Schema.paths)
              => (~Did("_get_request_schema") /\ ~Did("get_json"))
        /\ Did("get_json") =>
              /\ NonEmptyPrefix(Schema, Value.root_url)
              /\ looked_up.val \in DOMAIN Schema.paths
              /\ lower(Value.method) \in DOMAIN Schema.paths[looked_up.val][PathsKey]

C6_Witness ==
    /\ Called
    /\ AnyServerPrefix(Schema, Value.root_url)
    /\ IsReturn("InvalidRequestMethod")
    /\ steps = <<"_get_server_url", "paths[path]", "_get_request_schema">>

C8_FirstPrefixResolves ==
    (Called /\ AnyServerPrefix(Schema, Value.root_url))
        => /\ ~IsReturn("InvalidRequestPath")
           /\ looked_up = Some(LogicalPath(Schema, Value.root_url))

\* C8, the part that holds: when the first matching server URL is not the
\* empty string, it is the one stripped (no longest-prefix preference) and
\* the request is not reported as InvalidRequestPath.
C8_FirstNonEmptyPrefixResolves ==
    (Called /\ NonEmptyPrefix(Schema, Value.root_url))
        => /\ ~IsReturn("InvalidRequestPath")
           /\ looked_up = Some(LogicalPath(Schema, Value.root_url))

C10_MethodLookupIgnoresCase ==
    (Called /\ NonEmptyPrefix(Schema, Value.root_url)
       /\ LogicalPath(Schema, Value.root_url) \in DOMAIN Schema.paths
       /\ lower(Value.method) \in
              DOMAIN Schema.paths[LogicalPath(Schema, Value.root_url)])
        => (~IsReturn("InvalidRequestMethod") /\ Did("_validate_request_body"))

====
